---- MODULE Spec2Model ----
(***************************************************************************)
(* Subscription service: the domain layer (internal/service) on top of the *)
(* PostgreSQL storage adapter (internal/repository).                       *)
(*                                                                         *)
(* Time values (time.Time) are points of one integer axis, a calendar day   *)
(* apart; 0 is the zero time.Time{}, 1 is 2025-01-01, so 32 is 2025-02-01. *)
(* Of the wall clock only the order of its readings matters: a reading     *)
(* equals the one before when time.Now() returns the same instant twice.   *)
(* A *time.Time / *string is a sequence of length 0 (nil) or 1.            *)
(* A string that is inspected character by character (service names) is a  *)
(* sequence of one-character strings.                                      *)
(***************************************************************************)
EXTENDS Integers, Sequences, FiniteSets, TLC

VARIABLES
    store,    \* the subscriptions table: id -> row
    now,      \* the last reading of the wall clock
    nextId,   \* the next identifier uuid.New() returns
    lastOp,   \* the last call: its arguments, the statements issued, the result
    deleted,  \* the ids a DeleteSubscription has removed (history)
    pending   \* the UpdateSubscription calls that run interleaved with other
              \* calls: call number -> what the call holds after its load

vars == <<store, now, nextId, lastOp, deleted, pending>>

-----------------------------------------------------------------------------
(* Bounds of the model *)

\* identifiers uuid.New() hands out in one run of Spec
MaxIds == 1

\* identifiers uuid.New() hands out in one run of SpecMany
MaxIdsMany == 2

\* identifiers uuid.New() hands out in one run of SpecSum
MaxIdsSum == 2

\* identifiers uuid.New() hands out in one run of SpecList
MaxIdsList == 3

\* identifiers uuid.New() hands out in one run of SpecHttp
MaxIdsHttp == 1

\* identifiers uuid.New() hands out in one run of SpecFault
MaxIdsFault == 1

\* identifiers uuid.New() hands out in one run of SpecRace
MaxIdsRace == 1

\* UpdateSubscription calls that get past their load in one run of SpecRace
MaxCalls == 2

\* identifiers uuid.New() hands out in one run of SpecDeleteRace
MaxIdsDelete == 1

\* DELETE requests in one run of SpecDeleteRace
MaxRequests == 3

\* identifiers uuid.New() hands out in one run of SpecApi
MaxIdsApi == 1

\* number of times the wall clock is seen to have advanced
MaxTicks == 1

-----------------------------------------------------------------------------
(* Values *)

Nil == <<>>

Some(x) == <<x>>

\* time.Time{}: the zero time
ZeroTime == 0

\* first reading of the wall clock, long after every calendar date below
ClockStart == 400

\* the default term: start.AddDate(0, 0, 30)
DefaultTermDays == 30

\* errors.New("invalid input")
ErrInvalid == "invalid input"

\* errors.New("not found")
ErrNotFound == "not found"

\* any other error the database driver returns (connection loss, a value the
\* column type rejects); the adapter passes it on unchanged
ErrStorage == "storage error"

NoErr == "nil"

ValidUUID == "7d9d8e22-bc1d-4dbe-9e4d-3c5dfedcb5b9"

OtherUUID == "0b6f3c1e-2a4d-4f7a-9c3e-5d8e1f2a3b4c"

BadUUID == "invalid-uuid"

\* uuid.Parse(s) succeeds
IsUUID(s) == s \in {ValidUUID, OtherUUID}

\* unicode.IsSpace on the characters used here
IsSpace(c) == c \in {" ", "\t", "\n"}

RECURSIVE TrimLeft(_)
TrimLeft(s) ==
    IF s # <<>> /\ IsSpace(Head(s)) THEN TrimLeft(Tail(s)) ELSE s

RECURSIVE TrimRight(_)
TrimRight(s) ==
    IF s # <<>> /\ IsSpace(s[Len(s)]) THEN TrimRight(SubSeq(s, 1, Len(s) - 1)) ELSE s

\* strings.TrimSpace
TrimSpace(s) == TrimRight(TrimLeft(s))

\* time.Time methods
After(t, u) == t > u

\* Before taken for "not after"
Before_OrEqual(t, u) == t <= u

Before(t, u) == t < u

IsZero(t) == t = ZeroTime

AddDate(t, days) == t + days

-----------------------------------------------------------------------------
(* Storage adapter: the subscriptions table is a function id -> row *)

\* the row INSERT writes for a *model.Subscription
RowOf(s) ==
    [id |-> s.ID, service_name |-> s.ServiceName, price |-> s.Price,
     user_id |-> s.UserID, start_date |-> s.StartDate, end_date |-> s.EndDate,
     created_at |-> s.CreatedAt, updated_at |-> s.UpdatedAt]

\* row.Scan into a *model.Subscription; a NULL end_date leaves EndDate nil
ScanRow(r) ==
    [ID |-> r.id, ServiceName |-> r.service_name, Price |-> r.price,
     UserID |-> r.user_id, StartDate |-> r.start_date,
     EndDate |-> IF r.end_date # Nil THEN Some(r.end_date[1]) ELSE Nil,
     CreatedAt |-> r.created_at, UpdatedAt |-> r.updated_at]

\* the user_id column is compared with $1::uuid: it holds uuid values only,
\* and a text that is no uuid is rejected by the database
CastUUID(s) == IsUUID(s)

\* RowsAffected that is never looked at: every statement counts as effective
RowsAffected_AlwaysOne(st, id) == 1

\* res.RowsAffected() of a statement with WHERE id = $n
RowsAffected(st, id) == IF id \in DOMAIN st THEN 1 ELSE 0

\* PgCreate that does not look at the error of the INSERT
PgCreate_IgnoresError(st, s, fault) ==
    IF fault \/ ~CastUUID(s.UserID)
    THEN [err |-> NoErr, st |-> st]
    ELSE [err |-> NoErr, st |-> (s.ID :> RowOf(s)) @@ st]

\* pgRepo.Create: one INSERT
PgCreate(st, s, fault) ==
    IF fault \/ ~CastUUID(s.UserID)
    THEN [err |-> ErrStorage, st |-> st]
    ELSE [err |-> NoErr, st |-> (s.ID :> RowOf(s)) @@ st]

\* PgGetByID that reports every failure of the SELECT as ErrNotFound
PgGetByID_AnyErrorIsNotFound(st, id, fault) ==
    IF fault \/ id \notin DOMAIN st THEN [err |-> ErrNotFound, sub |-> Nil]
    ELSE [err |-> NoErr, sub |-> Some(ScanRow(st[id]))]

\* pgRepo.GetByID: one SELECT; zero rows is sql.ErrNoRows
PgGetByID(st, id, fault) ==
    IF fault THEN [err |-> ErrStorage, sub |-> Nil]
    ELSE IF id \notin DOMAIN st THEN [err |-> ErrNotFound, sub |-> Nil]
    ELSE [err |-> NoErr, sub |-> Some(ScanRow(st[id]))]

\* UpdateRow without updated_at in the SET list
UpdateRow_NoTimestamp(r, s) ==
    [r EXCEPT !.service_name = s.ServiceName, !.price = s.Price,
              !.user_id = s.UserID, !.start_date = s.StartDate,
              !.end_date = s.EndDate]

\* UpdateRow without price in the SET list
UpdateRow_KeepsPrice(r, s) ==
    [r EXCEPT !.service_name = s.ServiceName,
              !.user_id = s.UserID, !.start_date = s.StartDate,
              !.end_date = s.EndDate, !.updated_at = s.UpdatedAt]

\* the UPDATE statement: six columns are set, id and created_at are not
UpdateRow(r, s) ==
    [r EXCEPT !.service_name = s.ServiceName, !.price = s.Price,
              !.user_id = s.UserID, !.start_date = s.StartDate,
              !.end_date = s.EndDate, !.updated_at = s.UpdatedAt]

\* PgUpdate as an upsert: a record whose row is gone is written again
PgUpdate_Upserts(st, s, fault) ==
    IF fault \/ ~CastUUID(s.UserID)
    THEN [err |-> ErrStorage, st |-> st]
    ELSE IF RowsAffected(st, s.ID) = 0
    THEN [err |-> NoErr, st |-> (s.ID :> RowOf(s)) @@ st]
    ELSE [err |-> NoErr, st |-> [st EXCEPT ![s.ID] = UpdateRow(@, s)]]

\* pgRepo.Update: one UPDATE ... WHERE id = $7
PgUpdate(st, s, fault) ==
    IF fault \/ ~CastUUID(s.UserID)
    THEN [err |-> ErrStorage, st |-> st]
    ELSE IF RowsAffected(st, s.ID) = 0
    THEN [err |-> ErrNotFound, st |-> st]
    ELSE [err |-> NoErr, st |-> [st EXCEPT ![s.ID] = UpdateRow(@, s)]]

\* PgDelete as a soft delete: success is reported and the row stays
PgDelete_KeepsRow(st, id, fault) ==
    IF fault THEN [err |-> ErrStorage, st |-> st]
    ELSE IF RowsAffected(st, id) = 0
    THEN [err |-> ErrNotFound, st |-> st]
    ELSE [err |-> NoErr, st |-> st]

\* PgDelete that does not look at RowsAffected
PgDelete_IgnoresRowsAffected(st, id, fault) ==
    IF fault THEN [err |-> ErrStorage, st |-> st]
    ELSE [err |-> NoErr, st |-> [i \in DOMAIN st \ {id} |-> st[i]]]

\* pgRepo.Delete: one DELETE ... WHERE id = $1
PgDelete(st, id, fault) ==
    IF fault THEN [err |-> ErrStorage, st |-> st]
    ELSE IF RowsAffected(st, id) = 0
    THEN [err |-> ErrNotFound, st |-> st]
    ELSE [err |-> NoErr, st |-> [i \in DOMAIN st \ {id} |-> st[i]]]

\* the rows the WHERE clause of TotalCostForPeriod selects; it is called with
\* ($1, $2, $3, $4) = (to, from, userID, serviceName); a comparison with a
\* NULL end_date is not true, a NULL parameter switches its filter off
PeriodRows(st, from, to, userID, serviceName) ==
    {i \in DOMAIN st :
        /\ st[i].start_date <= to
        /\ st[i].end_date # Nil /\ st[i].end_date[1] >= from
        /\ userID = Nil \/ st[i].user_id = userID[1]
        /\ serviceName = Nil \/ st[i].service_name = serviceName[1]}

\* SUM(price) over a set of rows
RECURSIVE SumPrice(_, _)
SumPrice(st, rows) ==
    IF rows = {} THEN 0
    ELSE LET i == CHOOSE x \in rows : TRUE
         IN st[i].price + SumPrice(st, rows \ {i})

\* pgRepo.TotalCostForPeriod: one SELECT COALESCE(SUM(price),0); $3::uuid
\* fails the statement when the text is no uuid; a failed Scan leaves total 0
PgTotalCostForPeriod(st, from, to, userID, serviceName, fault) ==
    IF fault \/ (userID # Nil /\ ~CastUUID(userID[1]))
    THEN [err |-> ErrStorage, total |-> 0]
    ELSE [err |-> NoErr, total |-> SumPrice(st, PeriodRows(st, from, to, userID, serviceName))]

\* repository.ListFilter
ListFilter(userID, serviceName, limit, offset) ==
    [UserID |-> userID, ServiceName |-> serviceName, Limit |-> limit, Offset |-> offset]

\* the rows the WHERE clause of List selects: optional equality filters,
\* combined with AND; a NULL parameter switches its filter off
ListRows(st, userID, serviceName) ==
    {i \in DOMAIN st :
        /\ userID = Nil \/ st[i].user_id = userID[1]
        /\ serviceName = Nil \/ st[i].service_name = serviceName[1]}

\* ORDER BY created_at DESC: every order of the rows the database may
\* deliver them in; rows with equal created_at come in any order
ListOrders(st, rows) ==
    {o \in [1 .. Cardinality(rows) -> rows] :
        /\ \A i, j \in DOMAIN o : i < j => o[i] # o[j]
        /\ \A i, j \in DOMAIN o : i < j => st[o[i]].created_at >= st[o[j]].created_at}

\* LIMIT $3 OFFSET $4 on an ordered result
Page(o, limit, offset) ==
    SubSeq(o, offset + 1, IF offset + limit < Len(o) THEN offset + limit ELSE Len(o))

\* the statement failures a List call can meet: none, the query itself, the
\* Scan of a row, the end of the row iteration (rows.Next() returns false
\* with rows.Err() set)
ListFaults == {"none", "query", "scan", "iter"}

\* pgRepo.List: one SELECT; o is the order the database delivers the selected
\* rows in, k the number of rows read before the fault; $1::uuid fails the
\* query when the text is no uuid, a negative LIMIT or OFFSET fails it too;
\* rows.Err() is not looked at after the loop
PgList(st, f, o, fault, k) ==
    IF \/ fault = "query"
       \/ f.UserID # Nil /\ ~CastUUID(f.UserID[1])
       \/ f.Limit < 0 \/ f.Offset < 0
    THEN [err |-> ErrStorage, out |-> <<>>]
    ELSE LET page == Page(o, f.Limit, f.Offset)
             subs == [i \in DOMAIN page |-> ScanRow(st[page[i]])]
         IN IF fault = "scan" /\ k < Len(page)
            THEN [err |-> ErrStorage, out |-> <<>>]
            ELSE IF fault = "iter" /\ k <= Len(page)
            THEN [err |-> NoErr, out |-> SubSeq(subs, 1, k)]
            ELSE [err |-> NoErr, out |-> subs]

-----------------------------------------------------------------------------
(* Domain layer *)

\* service.CreateInput / service.UpdateInput
Input(name, price, user, start, end) ==
    [ServiceName |-> name, Price |-> price, UserID |-> user,
     StartDate |-> start, EndDate |-> end]

\* what the last call was and what it returned
Call(op, id, in, fault, err, out, calls) ==
    [op |-> op, id |-> id, in |-> in, fault |-> fault, err |-> err,
     out |-> out, calls |-> calls]

\* CreateRejects without the check of the price
CreateRejects_NoPriceCheck(in) ==
    \/ in.ServiceName = <<>>
    \/ ~IsUUID(in.UserID)
    \/ in.EndDate # Nil /\ After(in.StartDate, in.EndDate[1])

\* the checks of CreateSubscription that return ErrInvalid
CreateRejects(in) ==
    \/ in.ServiceName = <<>>
    \/ in.Price < 0
    \/ ~IsUUID(in.UserID)
    \/ in.EndDate # Nil /\ After(in.StartDate, in.EndDate[1])

\* the end date CreateSubscription computes
CreateEnd(in) ==
    IF in.EndDate # Nil THEN in.EndDate[1]
    ELSE AddDate(in.StartDate, DefaultTermDays)

\* the *model.Subscription CreateSubscription builds at clock reading t
NewSubscription(id, in, t) ==
    [ID |-> id, ServiceName |-> in.ServiceName, Price |-> in.Price,
     UserID |-> in.UserID,
     StartDate |-> IF IsZero(in.StartDate) THEN t ELSE in.StartDate,
     EndDate |-> Some(CreateEnd(in)),
     CreatedAt |-> t, UpdatedAt |-> t]

\* serviceImpl.CreateSubscription; t is time.Now().UTC(), fault says whether
\* the database fails the INSERT
CreateSubscription(in, t, fault) ==
    IF CreateRejects(in)
    THEN /\ lastOp' = Call("Create", 0, Some(in), FALSE, ErrInvalid, Nil, <<>>)
         /\ UNCHANGED <<store, now, nextId, deleted, pending>>
    ELSE /\ LET sub == NewSubscription(nextId, in, t)
                r == PgCreate(store, sub, fault)
            IN /\ store' = r.st
               /\ lastOp' = Call("Create", nextId, Some(in), fault, r.err,
                                 IF r.err = NoErr THEN Some(sub) ELSE Nil,
                                 <<"INSERT">>)
         /\ now' = t
         /\ nextId' = nextId + 1
         /\ UNCHANGED <<deleted, pending>>

\* serviceImpl.GetByID
GetByID(id, fault) ==
    LET r == PgGetByID(store, id, fault)
    IN /\ lastOp' = Call("GetByID", id, Nil, fault, r.err, r.sub, <<"SELECT">>)
       /\ UNCHANGED <<store, now, nextId, deleted, pending>>

\* the check of UpdateSubscription that returns ErrInvalid
UpdateRejects(in) ==
    in.EndDate # Nil /\ Before(in.EndDate[1], in.StartDate)

\* Replaced as a merge: an omitted end date keeps the loaded one
Replaced_KeepsEndDate(existing, in, t) ==
    [existing EXCEPT
        !.ServiceName = in.ServiceName,
        !.Price = in.Price,
        !.UserID = in.UserID,
        !.StartDate = in.StartDate,
        !.EndDate = IF in.EndDate = Nil THEN @ ELSE in.EndDate,
        !.UpdatedAt = t]

\* the fields UpdateSubscription assigns to the loaded record
Replaced(existing, in, t) ==
    [existing EXCEPT
        !.ServiceName = in.ServiceName,
        !.Price = in.Price,
        !.UserID = in.UserID,
        !.StartDate = in.StartDate,
        !.EndDate = IF in.EndDate = Nil
                    THEN Some(AddDate(in.StartDate, DefaultTermDays))
                    ELSE in.EndDate,
        !.UpdatedAt = t]

\* UpdateSubscription that validates the input before it loads the record
UpdateSubscription_ValidatesFirst(id, in, t, fault) ==
    IF UpdateRejects(in)
    THEN /\ lastOp' = Call("Update", id, Some(in), FALSE, ErrInvalid, Nil, <<>>)
         /\ UNCHANGED <<store, now, nextId, deleted, pending>>
    ELSE LET g == PgGetByID(store, id, fault = 1)
         IN IF g.err # NoErr
            THEN /\ lastOp' = Call("Update", id, Some(in), fault = 1, g.err, Nil, <<"SELECT">>)
                 /\ UNCHANGED <<store, now, nextId, deleted, pending>>
            ELSE LET existing == Replaced(g.sub[1], in, t)
                     r == PgUpdate(store, existing, fault = 2)
                 IN /\ store' = r.st
                    /\ lastOp' = Call("Update", id, Some(in), fault = 2, r.err,
                                      IF r.err = NoErr THEN Some(existing) ELSE Nil,
                                      <<"SELECT", "UPDATE">>)
                    /\ now' = t
                    /\ UNCHANGED <<nextId, deleted, pending>>

\* serviceImpl.UpdateSubscription; fault is the statement the database fails
\* (0 none, 1 the SELECT, 2 the UPDATE)
UpdateSubscription(id, in, t, fault) ==
    LET g == PgGetByID(store, id, fault = 1)
    IN IF g.err # NoErr
       THEN /\ lastOp' = Call("Update", id, Some(in), fault = 1, g.err, Nil, <<"SELECT">>)
            /\ UNCHANGED <<store, now, nextId, deleted, pending>>
       ELSE IF UpdateRejects(in)
       THEN /\ lastOp' = Call("Update", id, Some(in), FALSE, ErrInvalid, Nil, <<"SELECT">>)
            /\ UNCHANGED <<store, now, nextId, deleted, pending>>
       ELSE LET existing == Replaced(g.sub[1], in, t)
                r == PgUpdate(store, existing, fault = 2)
            IN /\ store' = r.st
               /\ lastOp' = Call("Update", id, Some(in), fault = 2, r.err,
                                 IF r.err = NoErr THEN Some(existing) ELSE Nil,
                                 <<"SELECT", "UPDATE">>)
               /\ now' = t
               /\ UNCHANGED <<nextId, deleted, pending>>

\* UpdateSubscription up to the call of repo.Update, as one of several calls
\* in flight: the SELECT, the check, the assignments and the clock reading; c
\* numbers the call, loaded is the record the SELECT returned, existing the
\* record the call is about to write
UpdateLoad(c, id, in, t, fault) ==
    LET g == PgGetByID(store, id, fault)
    IN IF g.err # NoErr
       THEN /\ lastOp' = Call("Update", id, Some(in), fault, g.err, Nil, <<"SELECT">>)
            /\ UNCHANGED <<store, now, nextId, deleted, pending>>
       ELSE IF UpdateRejects(in)
       THEN /\ lastOp' = Call("Update", id, Some(in), FALSE, ErrInvalid, Nil, <<"SELECT">>)
            /\ UNCHANGED <<store, now, nextId, deleted, pending>>
       ELSE /\ pending' = (c :> [pc |-> "loaded", id |-> id, in |-> in,
                                  loaded |-> g.sub[1],
                                  existing |-> Replaced(g.sub[1], in, t),
                                  err |-> NoErr]) @@ pending
            /\ lastOp' = Call("UpdateLoad", id, Some(in), FALSE, NoErr, Nil, <<"SELECT">>)
            /\ now' = t
            /\ UNCHANGED <<store, nextId, deleted>>

\* the rest of UpdateSubscription for call c: repo.Update and the return
UpdateWrite(c, fault) ==
    /\ c \in DOMAIN pending
    /\ pending[c].pc = "loaded"
    /\ LET r == PgUpdate(store, pending[c].existing, fault)
       IN /\ store' = r.st
          /\ pending' = [pending EXCEPT ![c].pc = "returned", ![c].err = r.err]
          /\ lastOp' = Call("Update", pending[c].id, Some(pending[c].in), fault, r.err,
                            IF r.err = NoErr THEN Some(pending[c].existing) ELSE Nil,
                            <<"SELECT", "UPDATE">>)
    /\ UNCHANGED <<now, nextId, deleted>>

\* serviceImpl.DeleteSubscription
DeleteSubscription(id, fault) ==
    LET r == PgDelete(store, id, fault)
    IN /\ store' = r.st
       /\ lastOp' = Call("Delete", id, Nil, fault, r.err, Nil, <<"DELETE">>)
       /\ deleted' = IF r.err = NoErr THEN deleted \cup {id} ELSE deleted
       /\ UNCHANGED <<now, nextId, pending>>

\* the arguments of a SumForPeriod call
Period(from, to, userID, serviceName) ==
    [From |-> from, To |-> to, UserID |-> userID, ServiceName |-> serviceName]

\* serviceImpl.SumForPeriod
SumForPeriod(q, fault) ==
    IF Before(q.To, q.From)
    THEN /\ lastOp' = Call("Sum", 0, Some(q), FALSE, ErrInvalid, Some(0), <<>>)
         /\ UNCHANGED <<store, now, nextId, deleted, pending>>
    ELSE LET r == PgTotalCostForPeriod(store, q.From, q.To, q.UserID, q.ServiceName, fault)
         IN /\ lastOp' = Call("Sum", 0, Some(q), fault, r.err, Some(r.total), <<"SELECT">>)
            /\ UNCHANGED <<store, now, nextId, deleted, pending>>

\* serviceImpl.ListSubscriptions
ListSubscriptions(f, o, fault, k) ==
    LET r == PgList(store, f, o, fault, k)
    IN /\ lastOp' = Call("List", 0, Some(f), fault # "none", r.err, Some(r.out), <<"SELECT">>)
       /\ UNCHANGED <<store, now, nextId, deleted, pending>>

-----------------------------------------------------------------------------
(* Request layer *)

StatusOK == 200
StatusBadRequest == 400
StatusNotFound == 404
StatusInternalServerError == 500

\* what respondErr and writeJSON send
Response(status, body) == [status |-> status, body |-> body]

Digits == {"0", "1", "2", "3", "4", "5", "6", "7", "8", "9"}

DigitValue(c) ==
    CASE c = "0" -> 0 [] c = "1" -> 1 [] c = "2" -> 2 [] c = "3" -> 3
      [] c = "4" -> 4 [] c = "5" -> 5 [] c = "6" -> 6 [] c = "7" -> 7
      [] c = "8" -> 8 [] c = "9" -> 9

\* the number a sequence of decimal digits writes
RECURSIVE DigitsValue(_)
DigitsValue(s) ==
    IF s = <<>> THEN 0
    ELSE 10 * DigitsValue(SubSeq(s, 1, Len(s) - 1)) + DigitValue(s[Len(s)])

\* strconv.Atoi: an optional sign and one or more decimal digits, nothing
\* else; texts too long for an int are not among the ones read here
Atoi(s) ==
    LET signed == s # <<>> /\ s[1] \in {"+", "-"}
        body == IF signed THEN Tail(s) ELSE s
    IN IF body = <<>> \/ \E i \in DOMAIN body : body[i] \notin Digits
       THEN [ok |-> FALSE, val |-> 0]
       ELSE [ok |-> TRUE,
             val |-> IF signed /\ s[1] = "-" THEN 0 - DigitsValue(body)
                     ELSE DigitsValue(body)]

DefaultLimit == 50
MaxLimit == 1000
DefaultOffset == 0

\* QueryLimit that takes every number that is not negative
QueryLimit_TakesZero(l) ==
    IF l # <<>> /\ Atoi(l).ok /\ Atoi(l).val >= 0 /\ Atoi(l).val <= MaxLimit
    THEN Atoi(l).val ELSE DefaultLimit

\* the limit of a list request: the query value when it is a number in
\* 1 .. 1000, else the default
QueryLimit(l) ==
    IF l # <<>> /\ Atoi(l).ok /\ Atoi(l).val > 0 /\ Atoi(l).val <= MaxLimit
    THEN Atoi(l).val ELSE DefaultLimit

\* the offset of a list request: the query value when it is a number that is
\* not negative, else the default
QueryOffset(o) ==
    IF o # <<>> /\ Atoi(o).ok /\ Atoi(o).val >= 0
    THEN Atoi(o).val ELSE DefaultOffset

\* the query values of a list request; an absent value reads as empty
ListQuery(user_id, service_name, limit, offset) ==
    [user_id |-> user_id, service_name |-> service_name, limit |-> limit,
     offset |-> offset]

\* the filter Handler.ListSubscriptions builds from the query values
QueryFilter(q) ==
    ListFilter(IF q.user_id # "" THEN Some(q.user_id) ELSE Nil,
               IF q.service_name # <<>> THEN Some(q.service_name) ELSE Nil,
               QueryLimit(q.limit), QueryOffset(q.offset))

\* Handler.ListSubscriptions; lastOp.in holds the query and the filter the
\* service is called with
HandlerListSubscriptions(q, o, fault, k) ==
    LET f == QueryFilter(q)
        r == PgList(store, f, o, fault, k)
    IN /\ lastOp' = Call("GET /subscriptions", 0, <<q, f>>, fault # "none", r.err,
                         Some(IF r.err # NoErr
                              THEN Response(StatusInternalServerError, <<>>)
                              ELSE Response(StatusOK, r.out)),
                         <<"SELECT">>)
       /\ UNCHANGED <<store, now, nextId, deleted, pending>>

\* a path value uuid.Parse refuses; uuid.New() hands out 1, 2, ...
BadID == 0

\* Handler.GetSubscriptionByID
HandlerGetSubscriptionByID(id, fault) ==
    IF id = BadID
    THEN /\ lastOp' = Call("GET /subscriptions/{id}", id, Nil, FALSE, NoErr,
                           Some(Response(StatusBadRequest, Nil)), <<>>)
         /\ UNCHANGED <<store, now, nextId, deleted, pending>>
    ELSE LET r == PgGetByID(store, id, fault)
         IN /\ lastOp' = Call("GET /subscriptions/{id}", id, Nil, fault, r.err,
                              Some(IF r.err = ErrNotFound
                                   THEN Response(StatusNotFound, Nil)
                                   ELSE IF r.err # NoErr
                                   THEN Response(StatusInternalServerError, Nil)
                                   ELSE Response(StatusOK, r.sub)),
                              <<"SELECT">>)
            /\ UNCHANGED <<store, now, nextId, deleted, pending>>

StatusNoContent == 204

\* the status Handler.DeleteSubscription answers an error of the service with
DeleteErrStatus(err) ==
    IF err = ErrNotFound THEN StatusNotFound ELSE StatusInternalServerError

\* a DELETE request that has returned: c numbers the request
Answered(c, id, loaded, err, status) ==
    c :> [pc |-> "returned", id |-> id, loaded |-> loaded, err |-> err,
          status |-> status]

\* Handler.DeleteSubscription up to the call of svc.DeleteSubscription, as one
\* of several requests in flight: the check of the path value and the GetByID
HandlerDeleteLoad(c, id, fault) ==
    IF id = BadID
    THEN /\ pending' = Answered(c, id, Nil, NoErr, StatusBadRequest) @@ pending
         /\ lastOp' = Call("DELETE /subscriptions/{id}", id, Nil, FALSE, NoErr,
                           Some(Response(StatusBadRequest, Nil)), <<>>)
         /\ UNCHANGED <<store, now, nextId, deleted>>
    ELSE LET g == PgGetByID(store, id, fault)
         IN IF g.err # NoErr
            THEN /\ pending' = Answered(c, id, Nil, g.err, DeleteErrStatus(g.err)) @@ pending
                 /\ lastOp' = Call("DELETE /subscriptions/{id}", id, Nil, fault, g.err,
                                   Some(Response(DeleteErrStatus(g.err), Nil)),
                                   <<"SELECT">>)
                 /\ UNCHANGED <<store, now, nextId, deleted>>
            ELSE /\ pending' = (c :> [pc |-> "loaded", id |-> id, loaded |-> g.sub,
                                       err |-> NoErr, status |-> 0]) @@ pending
                 /\ lastOp' = Call("DeleteLoad", id, Nil, FALSE, NoErr, Nil, <<"SELECT">>)
                 /\ UNCHANGED <<store, now, nextId, deleted>>

\* the rest of Handler.DeleteSubscription for request c: svc.DeleteSubscription
\* and the answer
HandlerDeleteWrite(c, fault) ==
    /\ c \in DOMAIN pending
    /\ pending[c].pc = "loaded"
    /\ LET id == pending[c].id
           r == PgDelete(store, id, fault)
           status == IF r.err # NoErr THEN DeleteErrStatus(r.err) ELSE StatusNoContent
       IN /\ store' = r.st
          /\ deleted' = IF r.err = NoErr THEN deleted \cup {id} ELSE deleted
          /\ pending' = [pending EXCEPT ![c].pc = "returned", ![c].err = r.err,
                                        ![c].status = status]
          /\ lastOp' = Call("DELETE /subscriptions/{id}", id, Nil, fault, r.err,
                            Some(Response(status, Nil)), <<"SELECT", "DELETE">>)
    /\ UNCHANGED <<now, nextId>>

StatusCreated == 201

\* the days of 2025 before the first of month m
DaysBeforeMonth(m) ==
    CASE m = 1 -> 0 [] m = 2 -> 31 [] m = 3 -> 59 [] m = 4 -> 90
      [] m = 5 -> 120 [] m = 6 -> 151 [] m = 7 -> 181 [] m = 8 -> 212
      [] m = 9 -> 243 [] m = 10 -> 273 [] m = 11 -> 304 [] m = 12 -> 334

\* the days of month m of 2025
DaysInMonth(m) ==
    IF m = 2 THEN 28 ELSE IF m \in {4, 6, 9, 11} THEN 30 ELSE 31

\* the point of the time axis of day d of month m of year y; 01.01.0001 is the
\* zero time.Time; the other texts read here are of 2025, whose 1 January is
\* point 1, and years are placed 365 days apart
DayOf(y, m, d) ==
    IF y = 1 /\ m = 1 /\ d = 1 THEN ZeroTime
    ELSE (y - 2025) * 365 + DaysBeforeMonth(m) + d

AllDigits(s) == \A i \in DOMAIN s : s[i] \in Digits

\* parseMonthYear: time.Parse("01-2006") takes two digits of a month 01 .. 12,
\* a dash and four digits of a year; the result is the first of that month
ParseMonthYear(s) ==
    IF /\ Len(s) = 7
       /\ s[3] = "-"
       /\ AllDigits(SubSeq(s, 1, 2)) /\ AllDigits(SubSeq(s, 4, 7))
       /\ DigitsValue(SubSeq(s, 1, 2)) \in 1 .. 12
    THEN [ok |-> TRUE,
          t |-> DayOf(DigitsValue(SubSeq(s, 4, 7)), DigitsValue(SubSeq(s, 1, 2)), 1)]
    ELSE [ok |-> FALSE, t |-> ZeroTime]

\* time.Parse("2006-01-02"): year, month 01 .. 12 and a day of that month
ParseDate(s) ==
    IF /\ Len(s) = 10
       /\ s[5] = "-" /\ s[8] = "-"
       /\ AllDigits(SubSeq(s, 1, 4)) /\ AllDigits(SubSeq(s, 6, 7))
       /\ AllDigits(SubSeq(s, 9, 10))
       /\ DigitsValue(SubSeq(s, 6, 7)) \in 1 .. 12
       /\ DigitsValue(SubSeq(s, 9, 10)) \in 1 .. DaysInMonth(DigitsValue(SubSeq(s, 6, 7)))
    THEN [ok |-> TRUE,
          t |-> DayOf(DigitsValue(SubSeq(s, 1, 4)), DigitsValue(SubSeq(s, 6, 7)),
                      DigitsValue(SubSeq(s, 9, 10)))]
    ELSE [ok |-> FALSE, t |-> ZeroTime]

\* createReq, the body of a create or update request; json says whether the
\* body decodes
CreateReq(json, name, price, user, start, end) ==
    [json |-> json, service_name |-> name, price |-> price, user_id |-> user,
     start_date |-> start, end_date |-> end]

\* the checks of the create and the update handler that answer 400
ReqRejects(req) ==
    \/ ~req.json
    \/ TrimSpace(req.service_name) = <<>> \/ req.price < 0
    \/ ~IsUUID(req.user_id)
    \/ ~ParseMonthYear(req.start_date).ok
    \/ /\ req.end_date # Nil
       /\ \/ ~ParseMonthYear(req.end_date[1]).ok
          \/ Before(ParseMonthYear(req.end_date[1]).t, ParseMonthYear(req.start_date).t)

\* the service.CreateInput / service.UpdateInput the handlers build
ReqInput(req) ==
    Input(req.service_name, req.price, req.user_id, ParseMonthYear(req.start_date).t,
          IF req.end_date # Nil THEN Some(ParseMonthYear(req.end_date[1]).t) ELSE Nil)

\* what serviceImpl.CreateSubscription returns and leaves in the store
CreateOutcome(in, t, fault) ==
    IF CreateRejects(in)
    THEN [err |-> ErrInvalid, out |-> Nil, st |-> store, calls |-> <<>>]
    ELSE LET sub == NewSubscription(nextId, in, t)
             r == PgCreate(store, sub, fault)
         IN [err |-> r.err, out |-> IF r.err = NoErr THEN Some(sub) ELSE Nil,
             st |-> r.st, calls |-> <<"INSERT">>]

\* Handler.CreateSubscription; lastOp.in holds the request and the input the
\* service is called with, nil when it is not called
HandlerCreateSubscription(req, t, fault) ==
    IF ReqRejects(req)
    THEN /\ lastOp' = Call("POST /subscriptions", 0, <<req, Nil>>, FALSE, NoErr,
                           Some(Response(StatusBadRequest, Nil)), <<>>)
         /\ UNCHANGED <<store, now, nextId, deleted, pending>>
    ELSE LET o == CreateOutcome(ReqInput(req), t, fault)
         IN /\ lastOp' = Call("POST /subscriptions", IF o.calls = <<>> THEN 0 ELSE nextId,
                              <<req, Some(ReqInput(req))>>, fault, o.err,
                              Some(IF o.err # NoErr
                                   THEN Response(StatusInternalServerError, Nil)
                                   ELSE Response(StatusCreated, o.out)),
                              o.calls)
            /\ store' = o.st
            /\ now' = IF o.calls = <<>> THEN now ELSE t
            /\ nextId' = IF o.calls = <<>> THEN nextId ELSE nextId + 1
            /\ UNCHANGED <<deleted, pending>>

\* what serviceImpl.UpdateSubscription returns and leaves in the store; fault
\* is the statement the database fails (0 none, 1 the SELECT, 2 the UPDATE)
UpdateOutcome(id, in, t, fault) ==
    LET g == PgGetByID(store, id, fault = 1)
    IN IF g.err # NoErr
       THEN [err |-> g.err, out |-> Nil, st |-> store, calls |-> <<"SELECT">>]
       ELSE IF UpdateRejects(in)
       THEN [err |-> ErrInvalid, out |-> Nil, st |-> store, calls |-> <<"SELECT">>]
       ELSE LET existing == Replaced(g.sub[1], in, t)
                r == PgUpdate(store, existing, fault = 2)
            IN [err |-> r.err, out |-> IF r.err = NoErr THEN Some(existing) ELSE Nil,
                st |-> r.st, calls |-> <<"SELECT", "UPDATE">>]

\* Handler.UpdateSubscription
HandlerUpdateSubscription(id, req, t, fault) ==
    IF id = BadID \/ ReqRejects(req)
    THEN /\ lastOp' = Call("PUT /subscriptions/{id}", id, <<req, Nil>>, FALSE, NoErr,
                           Some(Response(StatusBadRequest, Nil)), <<>>)
         /\ UNCHANGED <<store, now, nextId, deleted, pending>>
    ELSE LET o == UpdateOutcome(id, ReqInput(req), t, fault)
         IN /\ lastOp' = Call("PUT /subscriptions/{id}", id, <<req, Some(ReqInput(req))>>,
                              fault # 0, o.err,
                              Some(IF o.err = ErrNotFound
                                   THEN Response(StatusNotFound, Nil)
                                   ELSE IF o.err # NoErr
                                   THEN Response(StatusInternalServerError, Nil)
                                   ELSE Response(StatusOK, o.out)),
                              o.calls)
            /\ store' = o.st
            /\ now' = IF o.calls = <<"SELECT", "UPDATE">> THEN t ELSE now
            /\ UNCHANGED <<nextId, deleted, pending>>

\* the query values of a total-cost request; an absent value reads as empty
CostQuery(from, to, user_id, service_name) ==
    [from |-> from, to |-> to, user_id |-> user_id, service_name |-> service_name]

\* the checks of Handler.GetTotalCost that answer 400
CostRejects(q) ==
    \/ q.from = <<>> \/ q.to = <<>>
    \/ ~ParseDate(q.from).ok
    \/ ~ParseDate(q.to).ok
    \/ After(ParseDate(q.from).t, ParseDate(q.to).t)

\* the arguments Handler.GetTotalCost calls SumForPeriod with
CostPeriod(q) ==
    Period(ParseDate(q.from).t, ParseDate(q.to).t,
           IF q.user_id # "" THEN Some(q.user_id) ELSE Nil,
           IF q.service_name # <<>> THEN Some(q.service_name) ELSE Nil)

\* what serviceImpl.SumForPeriod returns
SumOutcome(p, fault) ==
    IF Before(p.To, p.From)
    THEN [err |-> ErrInvalid, total |-> 0, calls |-> <<>>]
    ELSE LET r == PgTotalCostForPeriod(store, p.From, p.To, p.UserID, p.ServiceName, fault)
         IN [err |-> r.err, total |-> r.total, calls |-> <<"SELECT">>]

\* Handler.GetTotalCost
HandlerGetTotalCost(q, fault) ==
    IF CostRejects(q)
    THEN /\ lastOp' = Call("GET /subscriptions/total", 0, <<q, Nil>>, FALSE, NoErr,
                           Some(Response(StatusBadRequest, Nil)), <<>>)
         /\ UNCHANGED <<store, now, nextId, deleted, pending>>
    ELSE LET o == SumOutcome(CostPeriod(q), fault)
         IN /\ lastOp' = Call("GET /subscriptions/total", 0, <<q, Some(CostPeriod(q))>>,
                              fault, o.err,
                              Some(IF o.err # NoErr
                                   THEN Response(StatusInternalServerError, Nil)
                                   ELSE Response(StatusOK, Some(o.total))),
                              o.calls)
            /\ UNCHANGED <<store, now, nextId, deleted, pending>>

-----------------------------------------------------------------------------
(* The service as a sequence of calls; the database answers every statement *)

\* time.Now(): the wall clock has not gone back since the last reading
ClockReadings == {t \in {now, now + 1} : t <= ClockStart + MaxTicks}

BaseInput == Input(<<"N">>, 499, ValidUUID, 32, Nil)

\* 2025-01-01 .. 2025-02-01
OtherInput == Input(<<"M">>, 150, OtherUUID, 1, Some(32))

\* an end date before the start date
InvertedInput == Input(<<"N">>, 499, ValidUUID, 32, Some(1))

\* inputs that differ from BaseInput in one validated text or number field
FieldInputs ==
    {Input(n, 499, ValidUUID, 32, Nil) : n \in {<<>>, <<" ">>, <<"N">>}}
    \cup {Input(<<"N">>, p, ValidUUID, 32, Nil) : p \in {-1, 499}}
    \cup {Input(<<"N">>, 499, u, 32, Nil) : u \in {ValidUUID, BadUUID}}

\* inputs that differ from BaseInput in the dates
DateInputs ==
    {Input(<<"N">>, 499, ValidUUID, s, e) : s \in {ZeroTime, 32},
                                           e \in {Nil, Some(1), Some(500)}}

Inputs == FieldInputs \cup DateInputs \cup {OtherInput}

PlainInputs == {BaseInput, OtherInput, InvertedInput}

\* 2025-01-15, 01-25, 02-01, 02-02
FromDates == {15, 25, 32, 33}

\* 2025-01-20, 02-01, 02-15, 03-01
ToDates == {20, 32, 46, 60}

Periods ==
    {Period(f, t, u, n) : f \in FromDates, t \in ToDates,
                          u \in {Nil, Some(ValidUUID), Some(OtherUUID), Some(BadUUID)},
                          n \in {Nil, Some(<<"N">>)}}

\* list filters: each optional field absent or present, small pages
Filters ==
    {ListFilter(u, n, l, o) : u \in {Nil, Some(ValidUUID), Some(BadUUID)},
                              n \in {Nil, Some(<<"M">>)},
                              l \in 0 .. 2, o \in 0 .. 1}

Init ==
    /\ store = <<>>
    /\ now = ClockStart
    /\ nextId = 1
    /\ lastOp = Call("none", 0, Nil, FALSE, NoErr, Nil, <<>>)
    /\ deleted = {}
    /\ pending = <<>>

\* uuid.New() never repeats an identifier; a run ends its supply at cap
CreateStep(S, cap) ==
    \E in \in S, t \in ClockReadings :
        /\ CreateRejects(in) \/ nextId <= cap
        /\ CreateSubscription(in, t, FALSE)

GetStep(cap) == \E id \in 1 .. cap : GetByID(id, FALSE)

UpdateStep(S, cap) ==
    \E id \in 1 .. cap, in \in S, t \in ClockReadings : UpdateSubscription(id, in, t, 0)

DeleteStep(cap) == \E id \in 1 .. cap : DeleteSubscription(id, FALSE)

Next ==
    \/ CreateStep(Inputs, MaxIds)
    \/ GetStep(MaxIds)
    \/ UpdateStep(Inputs, MaxIds)
    \/ DeleteStep(MaxIds)

Spec == Init /\ [][Next]_vars

NextMany ==
    \/ CreateStep(PlainInputs, MaxIdsMany)
    \/ GetStep(MaxIdsMany)
    \/ UpdateStep(PlainInputs, MaxIdsMany)
    \/ DeleteStep(MaxIdsMany)

SpecMany == Init /\ [][NextMany]_vars

SumStep == \E q \in Periods : SumForPeriod(q, FALSE)

NextSum ==
    \/ CreateStep(PlainInputs, MaxIdsSum)
    \/ DeleteStep(MaxIdsSum)
    \/ SumStep

SpecSum == Init /\ [][NextSum]_vars

ListStep ==
    \E f \in Filters :
        \E o \in ListOrders(store, ListRows(store, f.UserID, f.ServiceName)) :
            ListSubscriptions(f, o, "none", 0)

\* ValidUUID with "N", OtherUUID with "M"
ListInputs == {BaseInput, OtherInput}

NextList ==
    \/ CreateStep(ListInputs, MaxIdsList)
    \/ ListStep

SpecList == Init /\ [][NextList]_vars

\* limit and offset query values: absent, no number, negative, zero, signed,
\* in range, the largest limit taken, the first one above it
NumberTexts ==
    {<<>>, <<"a", "b", "c">>, <<"-", "1">>, <<"0">>, <<"+", "2">>, <<"1">>,
     <<"1", "0", "0", "0">>, <<"1", "0", "0", "1">>}

\* list requests: every pair of limit and offset texts with no filter, every
\* pair of filter values with the first page of one or of the default size
ListQueries ==
    {ListQuery("", <<>>, l, o) : l \in NumberTexts, o \in NumberTexts}
    \cup {ListQuery(u, n, l, <<>>) : u \in {"", ValidUUID, BadUUID},
                                     n \in {<<>>, <<"M">>},
                                     l \in {<<>>, <<"1">>}}

HandlerListStep ==
    \E q \in ListQueries :
        \E o \in ListOrders(store, ListRows(store, QueryFilter(q).UserID,
                                            QueryFilter(q).ServiceName)) :
            HandlerListSubscriptions(q, o, "none", 0)

NextHttp ==
    \/ CreateStep(ListInputs, MaxIdsHttp)
    \/ DeleteStep(MaxIdsHttp)
    \/ HandlerListStep

SpecHttp == Init /\ [][NextHttp]_vars

-----------------------------------------------------------------------------
(* The service over a database that may fail any statement *)

CreateFaultStep(S, cap) ==
    \E in \in S, t \in ClockReadings, fault \in BOOLEAN :
        /\ CreateRejects(in) \/ nextId <= cap
        /\ CreateSubscription(in, t, fault)

HandlerGetFaultStep(cap) ==
    \E id \in {BadID} \cup (1 .. cap), fault \in BOOLEAN :
        HandlerGetSubscriptionByID(id, fault)

UpdateFaultStep(S, cap) ==
    \E id \in 1 .. cap, in \in S, t \in ClockReadings, fault \in 0 .. 2 :
        UpdateSubscription(id, in, t, fault)

DeleteFaultStep(cap) ==
    \E id \in 1 .. cap, fault \in BOOLEAN : DeleteSubscription(id, fault)

\* the first page of everything, the first record of one user
FaultFilters == {ListFilter(Nil, Nil, 2, 0), ListFilter(Some(ValidUUID), Nil, 1, 0)}

\* a Scan fails at a row that is there; the iteration can end early after any
\* number of rows, the last one included
ListFaultStep ==
    \E f \in FaultFilters :
        \E o \in ListOrders(store, ListRows(store, f.UserID, f.ServiceName)) :
            \E fault \in ListFaults, k \in 0 .. Len(Page(o, f.Limit, f.Offset)) :
                /\ fault = "none" => k = 0
                /\ fault = "query" => k = 0
                /\ fault = "scan" => k < Len(Page(o, f.Limit, f.Offset))
                /\ ListSubscriptions(f, o, fault, k)

NextFault ==
    \/ CreateFaultStep(PlainInputs, MaxIdsFault)
    \/ HandlerGetFaultStep(MaxIdsFault)
    \/ UpdateFaultStep(PlainInputs, MaxIdsFault)
    \/ DeleteFaultStep(MaxIdsFault)
    \/ ListFaultStep

SpecFault == Init /\ [][NextFault]_vars

-----------------------------------------------------------------------------
(* Calls that overlap: an UpdateSubscription is two statements, and the       *)
(* statements of other calls can fall between them                            *)

UpdateLoadStep(S, cap) ==
    \E id \in 1 .. cap, in \in S, t \in ClockReadings :
        /\ Cardinality(DOMAIN pending) < MaxCalls
        /\ UpdateLoad(Cardinality(DOMAIN pending) + 1, id, in, t, FALSE)

UpdateWriteStep == \E c \in DOMAIN pending : UpdateWrite(c, FALSE)

NextRace ==
    \/ CreateStep({OtherInput}, MaxIdsRace)
    \/ DeleteStep(MaxIdsRace)
    \/ UpdateLoadStep(PlainInputs, MaxIdsRace)
    \/ UpdateWriteStep

SpecRace == Init /\ [][NextRace]_vars

-----------------------------------------------------------------------------
(* DELETE requests that overlap: the handler reads the record, then deletes   *)
(* it, and the statements of other requests can fall between the two          *)

HandlerDeleteLoadStep(cap) ==
    \E id \in {BadID} \cup (1 .. cap) :
        /\ Cardinality(DOMAIN pending) < MaxRequests
        /\ HandlerDeleteLoad(Cardinality(DOMAIN pending) + 1, id, FALSE)

HandlerDeleteWriteStep == \E c \in DOMAIN pending : HandlerDeleteWrite(c, FALSE)

NextDeleteRace ==
    \/ CreateStep(ListInputs, MaxIdsDelete)
    \/ HandlerDeleteLoadStep(MaxIdsDelete)
    \/ HandlerDeleteWriteStep

SpecDeleteRace == Init /\ [][NextDeleteRace]_vars

-----------------------------------------------------------------------------
(* The create, update and total-cost requests, one after another *)

\* "01-2025", "02-2025", "01-0001" and "2025-01"
Jan2025 == <<"0", "1", "-", "2", "0", "2", "5">>
Feb2025 == <<"0", "2", "-", "2", "0", "2", "5">>
Jan0001 == <<"0", "1", "-", "0", "0", "0", "1">>
YearFirst == <<"2", "0", "2", "5", "-", "0", "1">>

BaseReq == CreateReq(TRUE, <<"N">>, 499, ValidUUID, Feb2025, Nil)

\* request bodies that differ from BaseReq in one field, or in the dates
Reqs ==
    {BaseReq, CreateReq(FALSE, <<"N">>, 499, ValidUUID, Feb2025, Nil)}
    \cup {CreateReq(TRUE, n, 499, ValidUUID, Feb2025, Nil) : n \in {<<>>, <<" ">>}}
    \cup {CreateReq(TRUE, <<"N">>, -1, ValidUUID, Feb2025, Nil),
          CreateReq(TRUE, <<"N">>, 499, BadUUID, Feb2025, Nil),
          CreateReq(TRUE, <<"N">>, 499, ValidUUID, YearFirst, Nil),
          CreateReq(TRUE, <<"N">>, 499, ValidUUID, Jan0001, Some(Jan2025))}
    \cup {CreateReq(TRUE, <<"N">>, 499, ValidUUID, Feb2025, Some(e)) :
              e \in {Jan2025, Feb2025, YearFirst}}

\* "2025-01-15", "2025-01-20", "2025-02-01" and "15-01-2025"
Day0115 == <<"2", "0", "2", "5", "-", "0", "1", "-", "1", "5">>
Day0120 == <<"2", "0", "2", "5", "-", "0", "1", "-", "2", "0">>
Day0201 == <<"2", "0", "2", "5", "-", "0", "2", "-", "0", "1">>
DayFirst == <<"1", "5", "-", "0", "1", "-", "2", "0", "2", "5">>

CostQueries ==
    {CostQuery(f, t, "", <<>>) : f \in {<<>>, Day0115, Day0201, DayFirst},
                                 t \in {<<>>, Day0120, Day0201, DayFirst}}
    \cup {CostQuery(f, Day0201, u, n) : f \in {Day0115, Day0201},
                                        u \in {"", ValidUUID, BadUUID},
                                        n \in {<<>>, <<"N">>}}

HandlerCreateStep(cap) ==
    \E req \in Reqs, t \in ClockReadings :
        /\ ReqRejects(req) \/ nextId <= cap
        /\ HandlerCreateSubscription(req, t, FALSE)

HandlerUpdateStep(cap) ==
    \E id \in {BadID} \cup (1 .. cap), req \in Reqs, t \in ClockReadings :
        HandlerUpdateSubscription(id, req, t, 0)

HandlerTotalCostStep == \E q \in CostQueries : HandlerGetTotalCost(q, FALSE)

NextApi ==
    \/ HandlerCreateStep(MaxIdsApi)
    \/ HandlerUpdateStep(MaxIdsApi)
    \/ HandlerTotalCostStep

SpecApi == Init /\ [][NextApi]_vars

-----------------------------------------------------------------------------
(* Claims *)

\* the stored record of the last call, as GetByID reads it
Stored(id) == PgGetByID(store, id, FALSE).sub[1]

\* C1: every record in the store has a populated end_date that is not before
\* its start_date, after any sequence of Create, Update and Delete calls
\* (a start date of the zero time included).
C1_EndNotBeforeStart ==
    \A id \in DOMAIN store :
        /\ store[id].end_date # Nil
        /\ store[id].end_date[1] >= store[id].start_date

\* C2: when CreateSubscription succeeds with no end date supplied, the stored
\* and the returned record have end_date = their own start_date + 30 days.
C2_DefaultEndIsStartPlus30 ==
    (lastOp.op = "Create" /\ lastOp.err = NoErr /\ lastOp.in[1].EndDate = Nil
        /\ lastOp.id \in DOMAIN store)
    => /\ Stored(lastOp.id).EndDate = Some(Stored(lastOp.id).StartDate + 30)
       /\ lastOp.out[1].EndDate = Some(lastOp.out[1].StartDate + 30)

\* C3: every stored record has price >= 0 and a user_id that is a valid UUID,
\* and an Update carrying a negative price or a non-UUID user_id leaves the
\* store as it was.
C3_PriceAndUserValid ==
    [][/\ \A id \in DOMAIN store' :
            store'[id].price >= 0 /\ IsUUID(store'[id].user_id)
       /\ (lastOp'.op = "Update"
              /\ (lastOp'.in[1].Price < 0 \/ ~IsUUID(lastOp'.in[1].UserID)))
           => store' = store]_vars

\* C4: the domain layer never stores a record whose service_name is empty
\* after trimming whitespace.
C4_NameNotBlank ==
    \A id \in DOMAIN store : TrimSpace(store[id].service_name) # <<>>

\* C5: a CreateSubscription whose service name is the empty string, whose
\* price is negative, whose user_id is no UUID or whose supplied end date is
\* before the start date returns InvalidInput, issues no storage call and
\* leaves the store as it was.
C5_InvalidCreateWritesNothing ==
    [][(/\ lastOp'.op = "Create"
        /\ LET in == lastOp'.in[1]
           IN \/ Len(in.ServiceName) = 0
              \/ in.Price < 0
              \/ in.UserID \notin {ValidUUID, OtherUUID}
              \/ Len(in.EndDate) = 1 /\ in.EndDate[1] < in.StartDate)
       => /\ lastOp'.err = ErrInvalid
          /\ lastOp'.out = Nil
          /\ lastOp'.calls = <<>>
          /\ store' = store]_vars

\* a Create with a negative price was rejected while the store held a record
C5_Witness ==
    /\ lastOp.op = "Create"
    /\ lastOp.in[1].Price < 0
    /\ lastOp.err = ErrInvalid
    /\ lastOp.calls = <<>>
    /\ DOMAIN store # {}

\* C6: after a successful UpdateSubscription(id, input), GetByID(id) returns
\* the input's service name, price, user id, start date and end date (the
\* input start + 30 days when the end date is omitted), with the id and the
\* created_at the record had before.
C6_UpdateReplacesAllFields ==
    [][(lastOp'.op = "Update" /\ lastOp'.err = NoErr)
       => LET id == lastOp'.id
              in == lastOp'.in[1]
              g == PgGetByID(store', id, FALSE)
          IN /\ g.err = NoErr
             /\ g.sub[1].ServiceName = in.ServiceName
             /\ g.sub[1].Price = in.Price
             /\ g.sub[1].UserID = in.UserID
             /\ g.sub[1].StartDate = in.StartDate
             /\ g.sub[1].EndDate =
                    (IF Len(in.EndDate) = 0 THEN <<in.StartDate + 30>> ELSE in.EndDate)
             /\ g.sub[1].ID = id
             /\ id \in DOMAIN store
             /\ g.sub[1].CreatedAt = store[id].created_at
             /\ DOMAIN store' = DOMAIN store]_vars

\* an Update that omits the end date has written a record at a later clock
\* reading than the one it was created at
C6_Witness ==
    /\ lastOp.op = "Update"
    /\ lastOp.err = NoErr
    /\ lastOp.in[1] = BaseInput
    /\ Stored(lastOp.id).EndDate = Some(62)
    /\ Stored(lastOp.id).CreatedAt < Stored(lastOp.id).UpdatedAt

\* C7 as claimed: after every successful UpdateSubscription the stored
\* updated_at is strictly later than it was before the update.
C7_UpdatedAtStrictlyLater ==
    [][(lastOp'.op = "Update" /\ lastOp'.err = NoErr)
       => store'[lastOp'.id].updated_at > store[lastOp'.id].updated_at]_vars

\* C7 as amended: after every successful UpdateSubscription the stored
\* updated_at is the clock reading of that update; it is never earlier than
\* it was before, strictly later when the clock has advanced since the last
\* reading, and otherwise equal to the last reading.
C7_UpdatedAtIsClockReading ==
    [][(lastOp'.op = "Update" /\ lastOp'.err = NoErr)
       => LET old == store[lastOp'.id].updated_at
              new == store'[lastOp'.id].updated_at
          IN /\ new = now'
             /\ new >= old
             /\ now' > now => new > old]_vars

\* an Update right after the Create, at the same clock reading: updated_at
\* has not moved
C7_Witness ==
    /\ lastOp.op = "Update"
    /\ lastOp.err = NoErr
    /\ lastOp.in[1] = OtherInput
    /\ Stored(lastOp.id).ServiceName = <<"M">>
    /\ Stored(lastOp.id).UpdatedAt = Stored(lastOp.id).CreatedAt

\* C8: once DeleteSubscription(id) has succeeded, id is never in the store
\* again, and every later GetByID(id), UpdateSubscription(id, ...) and
\* DeleteSubscription(id) fails with NotFound, whatever happens to other ids.
C8_DeletedStaysDeleted ==
    [][\A id \in deleted :
          /\ id \notin DOMAIN store'
          /\ (lastOp'.id = id /\ lastOp'.op \in {"GetByID", "Update", "Delete"})
             => (lastOp'.err = ErrNotFound /\ lastOp'.out = Nil)]_vars

\* an Update of a deleted id was answered NotFound after a record was
\* created under another id
C8_Witness ==
    /\ lastOp.op = "Update"
    /\ lastOp.id \in deleted
    /\ lastOp.err = ErrNotFound
    /\ \E other \in DOMAIN store : other > lastOp.id

\* C9: UpdateSubscription and DeleteSubscription on an id that is not in the
\* store return NotFound and leave the store as it was; at the adapter, an
\* UPDATE or DELETE that affects zero rows is reported as NotFound.
C9_AbsentIdIsNotFound ==
    [][/\ (lastOp'.op \in {"Update", "Delete"} /\ lastOp'.id \notin DOMAIN store)
          => (lastOp'.err = ErrNotFound /\ lastOp'.out = Nil /\ store' = store)
       /\ \A id \in (1 .. MaxIdsMany) \ DOMAIN store :
             /\ PgDelete(store, id, FALSE) = [err |-> ErrNotFound, st |-> store]
             /\ \A in \in PlainInputs :
                   PgUpdate(store, NewSubscription(id, in, now), FALSE)
                       = [err |-> ErrNotFound, st |-> store]]_vars

\* a Delete of an id that is not in the store was answered NotFound while
\* the store held another record
C9_Witness ==
    /\ lastOp.op = "Delete"
    /\ lastOp.id \notin DOMAIN store
    /\ lastOp.id \notin deleted
    /\ lastOp.err = ErrNotFound
    /\ DOMAIN store # {}

\* whether a stored row counts for the period q: it overlaps [From, To], both
\* bounds inclusive, and equals each supplied filter
C10_Counts(q, r) ==
    /\ r.start_date <= q.To
    /\ r.end_date # Nil /\ r.end_date[1] >= q.From
    /\ q.UserID # Nil => r.user_id = q.UserID[1]
    /\ q.ServiceName # Nil => r.service_name = q.ServiceName[1]

\* the sum of price over the rows with ids 1 .. n that count for q
RECURSIVE C10_Total(_, _)
C10_Total(q, n) ==
    IF n = 0 THEN 0
    ELSE C10_Total(q, n - 1)
         + (IF n \in DOMAIN store /\ C10_Counts(q, store[n]) THEN store[n].price ELSE 0)

\* C10: for any store and any from <= to, SumForPeriod returns exactly the
\* sum of price over the stored records with start_date <= to and
\* end_date >= from that equal each supplied filter (0 when there is none).
C10_SumIsOverlapTotal ==
    (lastOp.op = "Sum" /\ lastOp.in[1].From <= lastOp.in[1].To)
    => /\ lastOp.err = NoErr
       /\ lastOp.out = Some(C10_Total(lastOp.in[1], nextId - 1))

\* C11: SumForPeriod with to strictly before from returns InvalidInput and
\* issues no query; with to >= from (to = from included) it never returns
\* InvalidInput, issues the one query and returns the store's answer: the
\* total of the overlapping records (0 when there is none), or the error of
\* the failed query.
C11_SumRejectsOnlyInvertedPeriods ==
    lastOp.op = "Sum"
    => LET q == lastOp.in[1]
       IN /\ q.To < q.From
             => (lastOp.err = ErrInvalid /\ lastOp.calls = <<>> /\ lastOp.out = <<0>>)
          /\ q.To >= q.From
             => /\ lastOp.err \in {NoErr, ErrStorage}
                /\ lastOp.calls = <<"SELECT">>
                /\ lastOp.err = NoErr => lastOp.out = <<C10_Total(q, nextId - 1)>>
                /\ (\A id \in DOMAIN store : ~C10_Counts(q, store[id]))
                   => lastOp.out = <<0>>

\* a period of one day, to = from, was summed over a record that overlaps it
C11_Witness ==
    /\ lastOp.op = "Sum"
    /\ lastOp.in[1].From = lastOp.in[1].To
    /\ lastOp.err = NoErr
    /\ lastOp.out[1] > 0

\* the stored records equal to every supplied field of filter f
C12_Matching(f) ==
    {i \in DOMAIN store :
        /\ f.UserID # Nil => store[i].user_id = f.UserID[1]
        /\ f.ServiceName # Nil => store[i].service_name = f.ServiceName[1]}

\* C12: for any store contents and any filter with limit L >= 0 and offset
\* O >= 0, ListSubscriptions returns without error exactly
\* min(L, max(0, n - O)) records, n the number of stored records equal to
\* every supplied filter field; they are stored records matching the filter,
\* in non-increasing created_at order, and the j-th of them stands at position
\* O + j of the matching records ordered by created_at descending (fewer than
\* O + j matching records are newer, at least O + j are not older).
C12_ListReturnsThePage ==
    lastOp.op = "List" /\ lastOp.in[1].Limit >= 0 /\ lastOp.in[1].Offset >= 0
    => LET f == lastOp.in[1]
           out == lastOp.out[1]
           m == C12_Matching(f)
           n == Cardinality(m)
           rest == IF n > f.Offset THEN n - f.Offset ELSE 0
       IN /\ lastOp.err = NoErr
          /\ Len(out) = (IF f.Limit < rest THEN f.Limit ELSE rest)
          /\ \A j \in DOMAIN out :
                /\ out[j].ID \in m /\ out[j] = ScanRow(store[out[j].ID])
                /\ Cardinality({i \in m : store[i].created_at > out[j].CreatedAt})
                       < f.Offset + j
                /\ Cardinality({i \in m : store[i].created_at >= out[j].CreatedAt})
                       >= f.Offset + j
          /\ \A i, j \in DOMAIN out :
                i < j => out[i].CreatedAt >= out[j].CreatedAt /\ out[i].ID # out[j].ID

\* C13: with an operational store, a list request whose filter no stored
\* record matches is answered 200 with an empty sequence and no error,
\* whatever filter values the request layer forwards (a user_id that is not
\* UUID-shaped and a service name no record has included).
C13_NoMatchIsEmptyList ==
    (/\ lastOp.op = "GET /subscriptions"
     /\ ~lastOp.fault
     /\ C12_Matching(lastOp.in[2]) = {})
    => /\ lastOp.err = NoErr
       /\ lastOp.out[1] = Response(StatusOK, <<>>)

\* C15: for every list request, whatever the limit and offset query values
\* (absent, no number, zero, negative, above 1000), the filter the handler
\* passes to the service has 1 <= Limit <= 1000 and Offset >= 0; with limit
\* and offset absent (and no user or service value) the filter is exactly
\* Limit 50, Offset 0 with no user and no service filter.
C15_FilterIsBounded ==
    lastOp.op = "GET /subscriptions"
    => LET q == lastOp.in[1]
           f == lastOp.in[2]
       IN /\ 1 <= f.Limit /\ f.Limit <= 1000
          /\ f.Offset >= 0
          /\ (q.limit = <<>> /\ q.offset = <<>>) => (f.Limit = 50 /\ f.Offset = 0)
          /\ (q.limit = <<>> /\ q.offset = <<>> /\ q.user_id = "" /\ q.service_name = <<>>)
             => f = [UserID |-> Nil, ServiceName |-> Nil, Limit |-> 50, Offset |-> 0]

\* a request with limit=1001 and offset=-1 was served with the defaults
C15_Witness ==
    /\ lastOp.op = "GET /subscriptions"
    /\ lastOp.in[1].limit = <<"1", "0", "0", "1">>
    /\ lastOp.in[1].offset = <<"-", "1">>
    /\ lastOp.in[2].Limit = 50 /\ lastOp.in[2].Offset = 0
    /\ lastOp.out[1].status = StatusOK

\* C14: GetByID reports NotFound exactly for a zero-row result: a lookup the
\* store answers with no row is NotFound (404 at the handler), a lookup the
\* store fails is that storage error, never NotFound (500 at the handler),
\* whether or not the row exists, and an existing row is returned with all
\* its stored fields (200).
C14_NotFoundOnlyForZeroRows ==
    (lastOp.op = "GET /subscriptions/{id}" /\ lastOp.id # BadID)
    => LET id == lastOp.id
           resp == lastOp.out[1]
       IN /\ (~lastOp.fault /\ id \notin DOMAIN store)
             => (lastOp.err = ErrNotFound /\ resp = Response(StatusNotFound, Nil))
          /\ lastOp.fault
             => (lastOp.err = ErrStorage /\ resp = Response(StatusInternalServerError, Nil))
          /\ (~lastOp.fault /\ id \in DOMAIN store)
             => /\ lastOp.err = NoErr
                /\ resp.status = StatusOK
                /\ resp.body = Some([ID |-> id,
                                     ServiceName |-> store[id].service_name,
                                     Price |-> store[id].price,
                                     UserID |-> store[id].user_id,
                                     StartDate |-> store[id].start_date,
                                     EndDate |-> store[id].end_date,
                                     CreatedAt |-> store[id].created_at,
                                     UpdatedAt |-> store[id].updated_at])
          /\ lastOp.err = ErrNotFound => id \notin DOMAIN store

\* the store failed the lookup of an id it does not hold: 500, not 404
C14_Witness ==
    /\ lastOp.op = "GET /subscriptions/{id}"
    /\ lastOp.fault
    /\ lastOp.id \notin DOMAIN store
    /\ lastOp.id \in deleted
    /\ lastOp.out[1].status = StatusInternalServerError

\* the write statements among the statements of a call
C17_Writes(calls) ==
    Cardinality({i \in DOMAIN calls : calls[i] \in {"INSERT", "UPDATE", "DELETE"}})

\* C17: every domain operation issues at most one write statement; when the
\* store fails the statement of a Create, Update or Delete, the operation
\* returns that storage error (not InvalidInput, not NotFound, not success)
\* and no record, issues nothing after the failed statement, and the store is
\* as it was; a write that succeeds is in the store completely.
C17_NoRetryErrorPassedOn ==
    [][lastOp'.op \in {"Create", "Update", "Delete", "GetByID", "List"}
       => /\ C17_Writes(lastOp'.calls) <= 1
          /\ (lastOp'.op \in {"Create", "Update", "Delete"} /\ lastOp'.fault)
             => /\ lastOp'.err = ErrStorage
                /\ lastOp'.out = Nil
                /\ store' = store
                /\ lastOp'.calls \in {<<"INSERT">>, <<"SELECT">>, <<"SELECT", "UPDATE">>,
                                       <<"DELETE">>}
          /\ (lastOp'.op \in {"Create", "Update"} /\ lastOp'.err = NoErr)
             => (lastOp'.id \in DOMAIN store'
                 /\ store'[lastOp'.id] = RowOf(lastOp'.out[1]))
          /\ (lastOp'.op \in {"Create", "Update", "Delete"} /\ lastOp'.err # NoErr)
             => store' = store]_vars

\* the store failed the UPDATE of an existing record: the error came back and
\* the record is as the Create left it
C17_Witness ==
    /\ lastOp.op = "Update"
    /\ lastOp.fault
    /\ lastOp.calls = <<"SELECT", "UPDATE">>
    /\ lastOp.err = ErrStorage
    /\ lastOp.id \in DOMAIN store
    /\ store[lastOp.id].updated_at = store[lastOp.id].created_at

\* C18: ListSubscriptions never hides a storage failure: when the store fails
\* while the result is read (at the query, at a row scan, or when the row
\* iteration ends with an error), List returns an error and no list.
C18_ListFailureIsReported ==
    (lastOp.op = "List" /\ lastOp.fault)
    => (lastOp.err = ErrStorage /\ lastOp.out = Some(<<>>))

\* C16: UpdateSubscription checks existence before validity: on an id that is
\* not in the store it returns NotFound, also when the input's end date is
\* before its start date; InvalidInput is returned only for an existing
\* record; in both cases only the SELECT was issued, no UPDATE, and the store
\* is unchanged.
C16_ExistenceBeforeValidity ==
    [][lastOp'.op = "Update"
       => /\ lastOp'.id \notin DOMAIN store
             => /\ lastOp'.err = ErrNotFound
                /\ lastOp'.calls = <<"SELECT">>
                /\ store' = store
          /\ lastOp'.err = ErrInvalid
             => /\ lastOp'.id \in DOMAIN store
                /\ lastOp'.in[1].EndDate # Nil
                /\ lastOp'.in[1].EndDate[1] < lastOp'.in[1].StartDate
                /\ lastOp'.calls = <<"SELECT">>
                /\ store' = store
          /\ (/\ lastOp'.id \in DOMAIN store
              /\ lastOp'.in[1].EndDate # Nil
              /\ lastOp'.in[1].EndDate[1] < lastOp'.in[1].StartDate)
             => lastOp'.err = ErrInvalid]_vars

\* an update with an end date before the start date, on an id that was deleted
\* while another record is stored, was answered NotFound
C16_Witness ==
    /\ lastOp.op = "Update"
    /\ lastOp.in[1] = InvertedInput
    /\ lastOp.id \in deleted
    /\ lastOp.err = ErrNotFound
    /\ store # <<>>

\* C19: an UpdateSubscription interleaved with a DeleteSubscription of the
\* same id never brings the record back: an update whose UPDATE statement
\* comes after the delete's statement (the update had loaded the record
\* before) returns NotFound and the record stays absent; in every
\* interleaving, from the moment the delete has succeeded, the id is not in
\* the store.
C19_UpdateNeverResurrects ==
    [][/\ (/\ lastOp'.op = "Update"
           /\ lastOp'.calls = <<"SELECT", "UPDATE">>
           /\ lastOp'.id \notin DOMAIN store)
          => /\ lastOp'.err = ErrNotFound
             /\ lastOp'.out = Nil
             /\ store' = store
       /\ \A id \in deleted' : id \notin DOMAIN store']_vars

\* an update loaded the record, the delete removed it, then the update's
\* UPDATE found no row
C19_Witness ==
    /\ lastOp.op = "Update"
    /\ lastOp.calls = <<"SELECT", "UPDATE">>
    /\ lastOp.err = ErrNotFound
    /\ lastOp.id \in deleted
    /\ lastOp.id \notin DOMAIN store
    /\ \E c \in DOMAIN pending :
          /\ pending[c].pc = "returned"
          /\ pending[c].loaded.ID = lastOp.id
          /\ pending[c].err = ErrNotFound

\* the update calls on id that have written
C20_Writers(id) ==
    {c \in DOMAIN pending :
        pending[c].pc = "returned" /\ pending[c].id = id /\ pending[c].err = NoErr}

\* the five input fields of row r are those of input in
C20_FromInput(r, in) ==
    /\ r.service_name = in.ServiceName
    /\ r.price = in.Price
    /\ r.user_id = in.UserID
    /\ r.start_date = in.StartDate
    /\ r.end_date = (IF in.EndDate # Nil THEN in.EndDate ELSE <<in.StartDate + 30>>)

\* C20: when UpdateSubscription calls on the same existing id interleave (each
\* a load followed by one atomic write), the record's service name, price,
\* user id, start date and end date all come from the same one of the inputs
\* of the calls that have written (no mixture), and its id and created_at are
\* those every call loaded, the ones it had before any update.
C20_FinalIsOneInput ==
    \A id \in DOMAIN store :
        C20_Writers(id) # {}
        => /\ \E c \in C20_Writers(id) : C20_FromInput(store[id], pending[c].in)
           /\ \A c \in C20_Writers(id) :
                 /\ store[id].id = pending[c].loaded.ID
                 /\ store[id].id = id
                 /\ store[id].created_at = pending[c].loaded.CreatedAt

\* two updates with different inputs both loaded the record as it was
\* created, then both wrote
C20_Witness ==
    \E c, d \in DOMAIN pending :
        /\ c # d
        /\ {c, d} \subseteq C20_Writers(pending[c].id)
        /\ pending[c].in = BaseInput /\ pending[d].in = OtherInput
        /\ pending[c].loaded = pending[d].loaded
        /\ pending[c].id \in DOMAIN store

\* the DELETE requests for id
C21_Requests(id) == {c \in DOMAIN pending : pending[c].id = id}

\* the DELETE requests for id that were answered with status
C21_Answered(id, status) ==
    {c \in C21_Requests(id) : pending[c].pc = "returned" /\ pending[c].status = status}

\* C21: when several DELETE requests for the same id interleave (each reads
\* the record, then deletes it) over an operational store, every answer is
\* 204 or 404, never 500, and at most one is 204; once a request has found the
\* record and all requests for the id have returned, exactly one was answered
\* 204, every other 404, and the record is absent; it is absent from the first
\* 204 on.
C21_OneDeleteSucceeds ==
    \A id \in 1 .. (nextId - 1) :
        /\ \A c \in C21_Requests(id) :
              pending[c].pc = "returned"
              => pending[c].status \in {StatusNoContent, StatusNotFound}
        /\ Cardinality(C21_Answered(id, StatusNoContent)) <= 1
        /\ C21_Answered(id, StatusNoContent) # {} => id \notin DOMAIN store
        /\ (/\ \E c \in C21_Requests(id) : pending[c].loaded # Nil
            /\ \A c \in C21_Requests(id) : pending[c].pc = "returned")
           => /\ Cardinality(C21_Answered(id, StatusNoContent)) = 1
              /\ C21_Answered(id, StatusNotFound)
                    = C21_Requests(id) \ C21_Answered(id, StatusNoContent)
              /\ id \notin DOMAIN store

\* three requests for one id: two had read the record before the first
\* DELETE, the third came after it; one 204, two 404
C21_Witness ==
    \E id \in deleted :
        /\ Cardinality(C21_Answered(id, StatusNoContent)) = 1
        /\ Cardinality(C21_Answered(id, StatusNotFound)) = 2
        /\ Cardinality({c \in C21_Requests(id) : pending[c].loaded # Nil}) = 2

\* the body of a create or update request is not valid input: it does not
\* decode, the name is empty, the price negative, the user id no UUID, a date
\* does not read as MM-YYYY, or the end date is before the start date
C22_InvalidBody(req) ==
    \/ ~req.json
    \/ req.service_name = <<>>
    \/ req.price < 0
    \/ ~IsUUID(req.user_id)
    \/ ~ParseMonthYear(req.start_date).ok
    \/ /\ req.end_date # Nil
       /\ \/ ~ParseMonthYear(req.end_date[1]).ok
          \/ ParseMonthYear(req.end_date[1]).t < ParseMonthYear(req.start_date).t

\* the dates of a total-cost request are not valid input: one is missing or
\* does not read as YYYY-MM-DD, or to is before from
C22_InvalidPeriod(q) ==
    \/ ~ParseDate(q.from).ok
    \/ ~ParseDate(q.to).ok
    \/ ParseDate(q.to).t < ParseDate(q.from).t

\* C22, the implication of the checks: whenever the create, update or
\* total-cost handler reaches the service call the service does not return
\* InvalidInput, and a request the domain layer's checks refuse (body or
\* dates not valid) is answered 400 before the service is called.
C22_ChecksImplyDomainChecks ==
    lastOp.op \in {"POST /subscriptions", "PUT /subscriptions/{id}", "GET /subscriptions/total"}
    => LET req == lastOp.in[1]
           called == lastOp.in[2] # Nil
           status == lastOp.out[1].status
           invalid == IF lastOp.op = "GET /subscriptions/total"
                      THEN C22_InvalidPeriod(req) ELSE C22_InvalidBody(req)
       IN /\ called => lastOp.err # ErrInvalid
          /\ invalid => (status = StatusBadRequest /\ ~called /\ lastOp.calls = <<>>)

\* C22: the request layer's checks imply the domain layer's: whenever the
\* create, update or total-cost handler reaches the service call the service
\* does not return InvalidInput, no request with invalid input (a malformed
\* identifier, an empty name, a negative price, an unreadable date, an
\* inverted date range) is answered 500, and invalid input is always answered
\* 400 before the service is called.
C22_InvalidInputIsAnswered400 ==
    lastOp.op \in {"POST /subscriptions", "PUT /subscriptions/{id}", "GET /subscriptions/total"}
    => LET req == lastOp.in[1]
           called == lastOp.in[2] # Nil
           status == lastOp.out[1].status
           invalid == IF lastOp.op = "GET /subscriptions/total"
                      THEN \/ C22_InvalidPeriod(req)
                           \/ req.user_id # "" /\ ~IsUUID(req.user_id)
                      ELSE C22_InvalidBody(req)
       IN /\ called => lastOp.err # ErrInvalid
          /\ invalid => (status = StatusBadRequest /\ ~called)
          /\ status = StatusInternalServerError => ~invalid

=============================================================================
